---- MODULE Spec2Model ----
(***************************************************************************)
(* A model of autoint/autoint.py: the FeaturesEmbedding offset lookup,     *)
(* the predict_model inference helper, the AutoIntLayer attention block,   *)
(* the MultiHeadSelfAttention validation and the AutoIntMLP forward pass.  *)
(* Each component has its own specification over the shared variables; the *)
(* variables of the other components stay at their idle values.            *)
(***************************************************************************)
EXTENDS Integers, Sequences, FiniteSets, TLC

VARIABLES
    \* FeaturesEmbedding
    emb_pc,           \* "new" | "built" | "called"
    field_dims,       \* the constructor's field_dims
    total_dim,        \* self.total_dim
    offsets,          \* self.offsets
    emb_x,            \* the raw row given to call
    emb_idx,          \* x + offsets: the indices handed to the embedding table
    \* predict_model
    pr_pc,            \* "idle" | "loop" | "done"
    pred_df,          \* the prediction table: a sequence of feature rows <<user, item>>
    model,            \* the predictor: the scores model.predict yields
    pr_i,             \* the loop variable i
    user_pred_info,   \* the accumulated list
    predict_calls,    \* the model.predict calls issued: <<first row, number of rows>>
    pr_result,        \* the returned list
    \* AutoIntLayer
    al_pc,            \* "new" | "constructed" | "called"
    att_head_num,     \* self.att_head_num
    att_res,          \* self.att_res
    al_W,             \* the kernels of W_Query, W_Key and W_Value
    al_x,             \* the inputs given to call
    al_status,        \* "none" | "ok" | "split_error": how call ended
    al_out,           \* the tensor call returned
    \* MultiHeadSelfAttention
    mh_pc,            \* "new" | "constructed" | "failed" (the constructor raised)
    mh_attrs,         \* <<>> or <<the attributes __init__ set>>
    mh_built,         \* Layer.built
    mh_weights,       \* the weights add_weight created, in order: [name, shape]
    mh_result,        \* <<>> or <<the shape of the tensor call returned>>
    mh_op,            \* the last operation: "none" | "init" | "build" | "call"
    mh_head_arg,      \* the head_num given to the last __init__
    mh_shape_arg,     \* the input shape given to the last build or call
    mh_err,           \* how it ended: "none" | "head_num" | "ndim" | "shape"
    \* AutoIntMLP
    fu_pc,            \* "new" | "constructed" | "attention" | "final" | "dnn" |
                      \* "output" | "done" | "error": the place in call
    fu_cfg,           \* <<>> or <<the constructor's arguments>>
    dnn,              \* self.dnn: the layers of the Sequential, in order
    int_layers,       \* self.int_layers: the AutoIntLayer instances, in order
    fu_embed_calls,   \* the calls of self.embedding in this pass
    fu_dnn_embed,     \* <<>> or <<dnn_embed>>
    fu_att_input,     \* <<>> or <<att_input>>
    fu_layer_log,     \* the AutoIntLayer calls of this pass: [layer, input]
    fu_att_output,    \* <<>> or <<att_output>>
    fu_dnn_output,    \* <<>> or <<dnn_output>>
    fu_y_pred         \* <<>> or <<the operands of the final sigmoid>>

embVars  == <<emb_pc, field_dims, total_dim, offsets, emb_x, emb_idx>>
predVars == <<pr_pc, pred_df, model, pr_i, user_pred_info, predict_calls, pr_result>>
attVars  == <<al_pc, att_head_num, att_res, al_W, al_x, al_status, al_out>>
mhVars   == <<mh_pc, mh_attrs, mh_built, mh_weights, mh_result, mh_op,
               mh_head_arg, mh_shape_arg, mh_err>>
fuVars   == <<fu_pc, fu_cfg, dnn, int_layers, fu_embed_calls, fu_dnn_embed,
               fu_att_input, fu_layer_log, fu_att_output, fu_dnn_output, fu_y_pred>>
vars     == <<embVars, predVars, attVars, mhVars, fuVars>>

Min(a, b) == IF a < b THEN a ELSE b

(***************************************************************************)
(* Bounds of the model.                                                    *)
(***************************************************************************)
MaxFields == 2    \* fields of a cardinality sequence
MaxCard   == 3    \* cardinality of one field
MaxRows   == 12   \* rows of a small prediction table
MaxChunks == 2    \* full chunks of a large prediction table
MaxUser   == 2    \* user identifiers of a prediction table
PatLen    == 2    \* period of the predictor's score pattern
MaxScore  == 1    \* largest score the predictor yields
MaxBatch  == 2    \* rows of an attention input
MaxAttFields == 2 \* fields of an attention input
MaxEmbed  == 4    \* embedding size
MaxHeads  == 3    \* attention heads
MaxSeed   == 2    \* seeds of the generated tensors and kernels
MaxRank   == 4    \* rank of an input shape
MaxAttSize == 2   \* att_embedding_size
MaxAttLayers == 3 \* att_layer_num
MaxHidden == 2    \* entries of dnn_hidden_units

(***************************************************************************)
(* FeaturesEmbedding                                                       *)
(***************************************************************************)
RECURSIVE SeqSum(_)
SeqSum(s) == IF s = <<>> THEN 0 ELSE s[1] + SeqSum(Tail(s))

\* np.cumsum(field_dims): the inclusive running sums
CumSum(dims) == [i \in 1..Len(dims) |-> SeqSum(SubSeq(dims, 1, i))]

\* a faulty variant of Offsets: the running sums taken inclusive, not shifted by one field
OffsetsInclusive(dims) == CumSum(dims)

\* np.array((0, *np.cumsum(field_dims)[:-1]))
Offsets(dims) == <<0>> \o SubSeq(CumSum(dims), 1, Len(dims) - 1)

EmbIdle ==
    /\ emb_pc = "new"
    /\ field_dims = <<>>
    /\ total_dim = 0
    /\ offsets = <<>>
    /\ emb_x = <<>>
    /\ emb_idx = <<>>

\* the cardinality sequences given to the constructor
FieldDimsInputs ==
    UNION {[1..n -> 1..MaxCard] : n \in 1..MaxFields} \cup {<<5, 3, 10>>}

FeaturesEmbedding_init ==
    /\ emb_pc = "new"
    /\ \E dims \in FieldDimsInputs :
          /\ field_dims' = dims
          /\ total_dim' = SeqSum(dims)
          /\ offsets' = Offsets(dims)
    /\ emb_pc' = "built"
    /\ UNCHANGED <<emb_x, emb_idx, predVars, attVars, mhVars, fuVars>>

\* the raw rows given to call: field f holds a code in 0..field_dims[f]
RECURSIVE RawRows(_)
RawRows(dims) ==
    IF dims = <<>> THEN {<<>>}
    ELSE {Append(r, c) : r \in RawRows(SubSeq(dims, 1, Len(dims) - 1)),
                         c \in 0..dims[Len(dims)]}

\* a faulty variant of GlobalIndex: the offsets are not added
GlobalIndexNoOffset(x, offs) == x

\* x + tf.constant(self.offsets)
GlobalIndex(x, offs) == [f \in 1..Len(x) |-> x[f] + offs[f]]

\* x = x + tf.constant(self.offsets); self.embedding(x).  A raw code may be the
\* field's cardinality itself: the call does not validate it.
FeaturesEmbedding_call ==
    /\ emb_pc \in {"built", "called"}
    /\ \E x \in RawRows(field_dims) :
          /\ emb_x' = x
          /\ emb_idx' = GlobalIndex(x, offsets)
    /\ emb_pc' = "called"
    /\ UNCHANGED <<field_dims, total_dim, offsets, predVars, attVars, mhVars, fuVars>>

(***************************************************************************)
(* predict_model                                                           *)
(***************************************************************************)
batch_size == 2048
top == 10

\* the prediction tables: row k holds <<user identifier, item identifier>>
Table(n) == [k \in 1..n |-> <<1 + ((k - 1) % MaxUser), 101 + ((k - 1) \div MaxUser)>>]

TableSizes ==
    (0..MaxRows) \cup {c * batch_size + d : c \in 1..MaxChunks, d \in {-1, 0, 1}}

\* the predictors: a score for each residue of the row's features
Models == [0..(PatLen - 1) -> 0..MaxScore]

\* model.predict on one feature row
Predict(m, feature) == m[(feature[1] + MaxUser * feature[2]) % PatLen]

PredIdle ==
    /\ pr_pc = "idle"
    /\ pred_df = <<>>
    /\ model = <<>>
    /\ pr_i = 0
    /\ user_pred_info = <<>>
    /\ predict_calls = <<>>
    /\ pr_result = <<>>

\* a faulty variant of ChunkEnd: the slice stops one row early
ChunkEndShort(i, n) == Min(i + batch_size - 1, n)

\* pred_df.iloc[i:i + batch_size, :]: the slice ends at the table's end
ChunkEnd(i, n) == Min(i + batch_size, n)

\* a faulty variant of PredInfo: the first column is taken
PredInfoUser(feature, p) == <<feature[1], p>>

\* (int(u_i[1]), float(p)) with u_i = feature[:2]
PredInfo(feature, p) == <<feature[2], p>>

\* one iteration of: for i in range(0, total_rows, batch_size)
PredictChunk ==
    /\ pr_pc = "loop"
    /\ pr_i < Len(pred_df)
    /\ LET rows == ChunkEnd(pr_i, Len(pred_df)) - pr_i
       IN  \* features = pred_df.iloc[i:i + batch_size, :].values and
           \* y_pred = model.predict(features), zipped row by row
           /\ predict_calls' = Append(predict_calls, <<pr_i, rows>>)
           /\ user_pred_info' = user_pred_info \o
                 [k \in 1..rows |->
                    PredInfo(pred_df[pr_i + k], Predict(model, pred_df[pr_i + k]))]
    /\ pr_i' = pr_i + batch_size
    /\ UNCHANGED <<pr_pc, pred_df, model, pr_result, embVars, attVars, mhVars, fuVars>>

SeqMax(s) == CHOOSE v \in {s[k][2] : k \in 1..Len(s)} :
                \A k \in 1..Len(s) : s[k][2] <= v

SeqMin(s) == CHOOSE v \in {s[k][2] : k \in 1..Len(s)} :
                \A k \in 1..Len(s) : s[k][2] >= v

\* a faulty variant of Sorted: reverse=True left out
RECURSIVE SortedAscending(_)
SortedAscending(s) ==
    IF s = <<>> THEN <<>>
    ELSE LET mn == SeqMin(s)
         IN  SelectSeq(s, LAMBDA e : e[2] = mn)
                \o SortedAscending(SelectSeq(s, LAMBDA e : e[2] # mn))

\* sorted(user_pred_info, key=lambda s: s[1], reverse=True): a stable sort, so
\* the entries of one score keep their order
RECURSIVE Sorted(_)
Sorted(s) ==
    IF s = <<>> THEN <<>>
    ELSE LET mx == SeqMax(s)
         IN  SelectSeq(s, LAMBDA e : e[2] = mx)
                \o Sorted(SelectSeq(s, LAMBDA e : e[2] # mx))

\* the loop has ended: return sorted(...)[:top]
PredictReturn ==
    /\ pr_pc = "loop"
    /\ pr_i >= Len(pred_df)
    /\ LET s == Sorted(user_pred_info)
       IN  pr_result' = SubSeq(s, 1, Min(top, Len(s)))
    /\ pr_pc' = "done"
    /\ UNCHANGED <<pred_df, model, pr_i, user_pred_info, predict_calls, embVars, attVars, mhVars, fuVars>>

(***************************************************************************)
(* AutoIntLayer                                                            *)
(*                                                                         *)
(* A tensor of rank 3 is a sequence (batch) of sequences (fields) of       *)
(* sequences (last axis).  Inputs and kernels hold integers.  An element   *)
(* of the attention output is the record [scores, vals, add] that stands   *)
(* for  sum_g softmax(scores)[g] * vals[g] + add : softmax is kept exact   *)
(* by keeping its argument.                                                *)
(***************************************************************************)
\* a generated entry in -1..1
Gen(seed, k) ==
    ((k * ((seed % 3) + 1) + (k \div 3) * ((seed \div 3) + seed)
        + (k \div 5) * (seed \div 3)) % 3) - 1

\* the input tensors of shape (B, F, E)
InputTensor(seed, B, F, E) ==
    [b \in 1..B |-> [f \in 1..F |-> [e \in 1..E |->
        Gen(seed, ((b - 1) * F + (f - 1)) * E + e)]]]

\* the kernels of shape (E, E) of a bias-free Dense(embedding_size)
Kernel(seed, E) == [d \in 1..E |-> [e \in 1..E |-> Gen(seed, (d - 1) * E + e + seed)]]

RECURSIVE Dot(_, _)
Dot(u, v) == IF u = <<>> THEN 0 ELSE u[1] * v[1] + Dot(Tail(u), Tail(v))

Column(W, e) == [d \in 1..Len(W) |-> W[d][e]]

\* Dense(embedding_size, use_bias=False) applied to the last axis
Dense(x, W) ==
    [b \in 1..Len(x) |-> [f \in 1..Len(x[b]) |-> [e \in 1..Len(W[1]) |->
        Dot(x[b][f], Column(W, e))]]]

\* tf.concat(tf.split(T, h, axis=-1), axis=0): head k of batch row b becomes
\* row k * B + b, holding the k-th block of the last axis
SplitHeads(T, h) ==
    LET B  == Len(T)
        dh == Len(T[1][1]) \div h
    IN  [n \in 1..(h * B) |-> [f \in 1..Len(T[1]) |-> [c \in 1..dh |->
            T[((n - 1) % B) + 1][f][((n - 1) \div B) * dh + c]]]]

\* a faulty variant of MergeHeads: the heads are left stacked on axis 0
MergeHeadsAxis0(O, h) == O

\* tf.concat(tf.split(O, h, axis=0), axis=-1)
MergeHeads(O, h) ==
    LET B  == Len(O) \div h
        dh == Len(O[1][1])
    IN  [b \in 1..B |-> [f \in 1..Len(O[1]) |-> [j \in 1..(h * dh) |->
            O[((j - 1) \div dh) * B + b][f][((j - 1) % dh) + 1]]]]

\* tf.matmul(Q, K, transpose_b=True)
Scores(Q, K) ==
    [n \in 1..Len(Q) |-> [f \in 1..Len(Q[n]) |-> [g \in 1..Len(K[n]) |->
        Dot(Q[n][f], K[n][g])]]]

\* tf.matmul(tf.nn.softmax(attention, axis=-1), V)
Attend(attention, V) ==
    [n \in 1..Len(V) |-> [f \in 1..Len(V[n]) |-> [c \in 1..Len(V[n][1]) |->
        [scores |-> attention[n][f],
         vals   |-> [g \in 1..Len(V[n]) |-> V[n][g][c]],
         add    |-> 0]]]]

\* a faulty variant of AddResidual: the output is overwritten by the inputs
AddResidualOverwrite(output, inputs) ==
    [b \in 1..Len(output) |-> [f \in 1..Len(output[b]) |-> [e \in 1..Len(output[b][f]) |->
        [scores |-> <<>>, vals |-> <<>>, add |-> inputs[b][f][e]]]]]

\* output += inputs
AddResidual(output, inputs) ==
    [b \in 1..Len(output) |-> [f \in 1..Len(output[b]) |-> [e \in 1..Len(output[b][f]) |->
        [output[b][f][e] EXCEPT !.add = @ + inputs[b][f][e]]]]]

\* AutoIntLayer.call, for a head count that tf.split accepts
AutoIntLayer_output(W, h, res, inputs) ==
    LET Q == SplitHeads(Dense(inputs, W.Q), h)
        K == SplitHeads(Dense(inputs, W.K), h)
        V == SplitHeads(Dense(inputs, W.V), h)
        output == MergeHeads(Attend(Scores(Q, K), V), h)
    IN  IF res THEN AddResidual(output, inputs) ELSE output

AttIdle ==
    /\ al_pc = "new"
    /\ att_head_num = 0
    /\ att_res = FALSE
    /\ al_W = <<>>
    /\ al_x = <<>>
    /\ al_status = "none"
    /\ al_out = <<>>

\* AutoIntLayer.__init__(embedding_size, att_head_num, att_res); the kernels
\* are those the three Dense layers hold once built
AutoIntLayer_init ==
    /\ al_pc = "new"
    /\ \E E \in 1..MaxEmbed, h \in 1..MaxHeads, res \in BOOLEAN, seed \in 0..MaxSeed :
          /\ att_head_num' = h
          /\ att_res' = res
          /\ al_W' = [Q |-> Kernel(seed, E), K |-> Kernel(seed + 1, E), V |-> Kernel(seed + 2, E)]
    /\ al_pc' = "constructed"
    /\ UNCHANGED <<al_x, al_status, al_out, embVars, predVars, mhVars, fuVars>>

\* AutoIntLayer.call(inputs) on an input of shape (B, F, embedding_size):
\* tf.split raises unless att_head_num divides the last axis
AutoIntLayer_call ==
    /\ al_pc = "constructed"
    /\ \E B \in 1..MaxBatch, F \in 1..MaxAttFields, sx \in 0..MaxSeed :
          LET inputs == InputTensor(sx, B, F, Len(al_W.Q))
          IN  /\ al_x' = inputs
              /\ IF Len(al_W.Q) % att_head_num # 0
                 THEN al_status' = "split_error" /\ al_out' = <<>>
                 ELSE /\ al_status' = "ok"
                      /\ al_out' = AutoIntLayer_output(al_W, att_head_num, att_res, inputs)
    /\ al_pc' = "called"
    /\ UNCHANGED <<att_head_num, att_res, al_W, embVars, predVars, mhVars, fuVars>>

(***************************************************************************)
(* MultiHeadSelfAttention: the validation, the weights and the result,     *)
(* tensors being given by their shapes                                     *)
(***************************************************************************)
MhIdle ==
    /\ mh_pc = "new"
    /\ mh_attrs = <<>>
    /\ mh_built = FALSE
    /\ mh_weights = <<>>
    /\ mh_result = <<>>
    /\ mh_op = "none"
    /\ mh_head_arg = 0
    /\ mh_shape_arg = <<>>
    /\ mh_err = "none"

\* the input shapes: rank r, batch B first and E on the last axis
ShapeInputs ==
    {[i \in 1..r |-> IF i = r THEN E ELSE IF i = 1 THEN B ELSE 2] :
        r \in 1..MaxRank, B \in 1..MaxBatch, E \in 1..MaxEmbed}

\* if head_num <= 0: raise ValueError
HeadNumRejected(head_num) == head_num <= 0

\* if len(input_shape) != 3: raise ValueError
BuildRankRejected(input_shape) == Len(input_shape) # 3

\* a faulty variant of CallRankRejected: only a rank below 3 is refused
CallRankRejectedBelow3(inputs_shape) == Len(inputs_shape) < 3

\* if K.ndim(inputs) != 3: raise ValueError
CallRankRejected(inputs_shape) == Len(inputs_shape) # 3

\* MultiHeadSelfAttention.__init__: the check comes before every assignment
MultiHeadSelfAttention_init ==
    /\ mh_pc = "new"
    /\ \E head_num \in (-1)..MaxHeads, att_embedding_size \in 1..MaxAttSize,
          use_res \in BOOLEAN, scaling \in BOOLEAN :
          /\ mh_head_arg' = head_num
          /\ IF HeadNumRejected(head_num)
             THEN /\ mh_err' = "head_num"
                  /\ mh_pc' = "failed"
                  /\ UNCHANGED mh_attrs
             ELSE /\ mh_err' = "none"
                  /\ mh_pc' = "constructed"
                  /\ mh_attrs' = <<[att_embedding_size |-> att_embedding_size,
                                    head_num |-> head_num,
                                    use_res |-> use_res,
                                    scaling |-> scaling,
                                    seed |-> 1024]>>
    /\ mh_op' = "init"
    /\ UNCHANGED <<mh_built, mh_weights, mh_result, mh_shape_arg,
                   embVars, predVars, attVars, fuVars>>

\* the weights build adds: query, key, value and, with use_res, res
BuiltWeights(attrs, input_shape) ==
    LET shape == <<input_shape[Len(input_shape)], attrs.att_embedding_size * attrs.head_num>>
    IN  <<[name |-> "query", shape |-> shape],
          [name |-> "key", shape |-> shape],
          [name |-> "value", shape |-> shape]>>
        \o (IF attrs.use_res THEN <<[name |-> "res", shape |-> shape]>> ELSE <<>>)

\* MultiHeadSelfAttention.build(input_shape), run once on a layer not yet built
MultiHeadSelfAttention_build ==
    /\ mh_pc = "constructed"
    /\ ~mh_built
    /\ \E input_shape \in ShapeInputs :
          /\ mh_shape_arg' = input_shape
          /\ IF BuildRankRejected(input_shape)
             THEN /\ mh_err' = "ndim"
                  /\ UNCHANGED <<mh_weights, mh_built>>
             ELSE /\ mh_err' = "none"
                  /\ mh_weights' = mh_weights \o BuiltWeights(mh_attrs[1], input_shape)
                  /\ mh_built' = TRUE
    /\ mh_op' = "build"
    /\ UNCHANGED <<mh_pc, mh_attrs, mh_result, mh_head_arg, embVars, predVars, attVars, fuVars>>

\* the shape call returns: tensordot to (B, F, a * h), split and stacked to
\* (h, B, F, a), attended, split on axis 0, concatenated on the last axis and
\* squeezed to (B, F, a * h)
CallResultShape(attrs, inputs_shape) ==
    LET h       == attrs.head_num
        a       == attrs.att_embedding_size
        stacked == <<h, inputs_shape[1], inputs_shape[2], (a * h) \div h>>
        concat  == <<stacked[1] \div h, stacked[2], stacked[3], stacked[4] * h>>
    IN  <<concat[2], concat[3], concat[4]>>

\* MultiHeadSelfAttention.call(inputs) on a built layer
MultiHeadSelfAttention_call ==
    /\ mh_pc = "constructed"
    /\ mh_built
    /\ \E inputs_shape \in ShapeInputs :
          /\ mh_shape_arg' = inputs_shape
          /\ IF CallRankRejected(inputs_shape)
             THEN mh_err' = "ndim" /\ UNCHANGED mh_result
             ELSE IF inputs_shape[Len(inputs_shape)] # mh_weights[1].shape[1]
             THEN \* tf.tensordot refuses the mismatched axis
                  mh_err' = "shape" /\ UNCHANGED mh_result
             ELSE /\ mh_err' = "none"
                  /\ mh_result' = <<CallResultShape(mh_attrs[1], inputs_shape)>>
    /\ mh_op' = "call"
    /\ UNCHANGED <<mh_pc, mh_attrs, mh_built, mh_weights, mh_head_arg,
                   embVars, predVars, attVars, fuVars>>

(***************************************************************************)
(* AutoIntMLP: the layers the constructor builds and the order in which    *)
(* call applies them.  A tensor of the pass is the record of what was      *)
(* applied to the embedding: att, the AutoIntLayer instances; ops, the     *)
(* reshapes and the final projection; dnn, the layers of self.dnn.         *)
(***************************************************************************)
FuIdle ==
    /\ fu_pc = "new"
    /\ fu_cfg = <<>>
    /\ dnn = <<>>
    /\ int_layers = <<>>
    /\ fu_embed_calls = 0
    /\ fu_dnn_embed = <<>>
    /\ fu_att_input = <<>>
    /\ fu_layer_log = <<>>
    /\ fu_att_output = <<>>
    /\ fu_dnn_output = <<>>
    /\ fu_y_pred = <<>>

\* dnn_hidden_units
HiddenInputs == UNION {[1..n -> {16, 32}] : n \in 0..MaxHidden}

\* dnn_dropout, in tenths
DropoutInputs == {0, 4}

DenseLayer(units, activation) ==
    [kind |-> "Dense", units |-> units, activation |-> activation, rate |-> 0]

BatchNormLayer == [kind |-> "BatchNormalization", units |-> 0, activation |-> "", rate |-> 0]

DropoutLayer(rate) == [kind |-> "Dropout", units |-> 0, activation |-> "", rate |-> rate]

\* a faulty variant of DnnLayers: batch normalisation and dropout are put before the
\* sigmoid unit
DnnLayersSigmoidLast(dnn_hidden_units, dnn_activation, dnn_use_bn, dnn_dropout) ==
    [k \in 1..Len(dnn_hidden_units) |-> DenseLayer(dnn_hidden_units[k], dnn_activation)]
        \o (IF dnn_use_bn THEN <<BatchNormLayer>> ELSE <<>>)
        \o <<DropoutLayer(dnn_dropout)>>
        \o <<DenseLayer(1, "sigmoid")>>

\* Sequential([Dense(unit, dnn_activation) ...] + [Dense(1, 'sigmoid')]), then
\* add(BatchNormalization()) if dnn_use_bn, then add(Dropout(dnn_dropout))
DnnLayers(dnn_hidden_units, dnn_activation, dnn_use_bn, dnn_dropout) ==
    [k \in 1..Len(dnn_hidden_units) |-> DenseLayer(dnn_hidden_units[k], dnn_activation)]
        \o <<DenseLayer(1, "sigmoid")>>
        \o (IF dnn_use_bn THEN <<BatchNormLayer>> ELSE <<>>)
        \o <<DropoutLayer(dnn_dropout)>>

\* [AutoIntLayer(embedding_size, att_head_num, att_res) for _ in range(att_layer_num)]
IntLayers(embedding_size, head_num, res, att_layer_num) ==
    [k \in 1..att_layer_num |->
        [embedding_size |-> embedding_size, att_head_num |-> head_num, att_res |-> res]]

\* AutoIntMLP.__init__
AutoIntMLP_init ==
    /\ fu_pc = "new"
    /\ \E num_fields \in 1..MaxAttFields, embedding_size \in 1..MaxEmbed,
          att_layer_num \in 0..MaxAttLayers, head_num \in 1..MaxHeads,
          res \in BOOLEAN, dnn_hidden_units \in HiddenInputs,
          dnn_use_bn \in BOOLEAN, dnn_dropout \in DropoutInputs :
          /\ fu_cfg' = <<[num_fields |-> num_fields,
                          embedding_size |-> embedding_size,
                          att_layer_num |-> att_layer_num,
                          dnn_hidden_units |-> dnn_hidden_units,
                          dnn_use_bn |-> dnn_use_bn,
                          dnn_dropout |-> dnn_dropout]>>
          /\ dnn' = DnnLayers(dnn_hidden_units, "relu", dnn_use_bn, dnn_dropout)
          /\ int_layers' = IntLayers(embedding_size, head_num, res, att_layer_num)
    /\ fu_pc' = "constructed"
    /\ UNCHANGED <<fu_embed_calls, fu_dnn_embed, fu_att_input, fu_layer_log,
                   fu_att_output, fu_dnn_output, fu_y_pred,
                   embVars, predVars, attVars, mhVars>>

\* the embedding's output
EmbedX == [att |-> <<>>, ops |-> <<>>, dnn |-> <<>>]

Op(t, name) == [t EXCEPT !.ops = Append(@, name)]

\* embed_x = self.embedding(inputs); dnn_embed = tf.reshape(embed_x, ...);
\* att_input = embed_x
AutoIntMLP_call_embed ==
    /\ fu_pc = "constructed"
    /\ fu_embed_calls' = fu_embed_calls + 1
    /\ fu_dnn_embed' = <<Op(EmbedX, "reshape")>>
    /\ fu_att_input' = <<EmbedX>>
    /\ fu_pc' = "attention"
    /\ UNCHANGED <<fu_cfg, dnn, int_layers, fu_layer_log, fu_att_output,
                   fu_dnn_output, fu_y_pred, embVars, predVars, attVars, mhVars>>

\* a faulty variant of LayerInput: every layer is given the embedding
LayerInputEmbedding(att_input, embed_x) == embed_x

\* layer(att_input): the layer is given the previous layer's output
LayerInput(att_input, embed_x) == att_input

\* one iteration of: for layer in self.int_layers: att_input = layer(att_input).
\* The layer's tf.split raises unless its head count divides the embedding size.
AutoIntMLP_call_layer ==
    /\ fu_pc = "attention"
    /\ Len(fu_layer_log) < Len(int_layers)
    /\ LET k      == Len(fu_layer_log) + 1
           layer  == int_layers[k]
           inputs == LayerInput(fu_att_input[1], EmbedX)
       IN  /\ fu_layer_log' = Append(fu_layer_log, [layer |-> k, input |-> inputs])
           /\ IF layer.embedding_size % layer.att_head_num # 0
              THEN fu_pc' = "error" /\ UNCHANGED fu_att_input
              ELSE /\ fu_att_input' = <<[inputs EXCEPT !.att = Append(@, k)]>>
                   /\ UNCHANGED fu_pc
    /\ UNCHANGED <<fu_cfg, dnn, int_layers, fu_embed_calls, fu_dnn_embed,
                   fu_att_output, fu_dnn_output, fu_y_pred,
                   embVars, predVars, attVars, mhVars>>

\* att_output = Flatten()(att_input); att_output = self.final_layer(att_output)
AutoIntMLP_call_final ==
    /\ fu_pc = "attention"
    /\ Len(fu_layer_log) = Len(int_layers)
    /\ fu_att_output' = <<Op(Op(fu_att_input[1], "Flatten"), "final_layer")>>
    /\ fu_pc' = "dnn"
    /\ UNCHANGED <<fu_cfg, dnn, int_layers, fu_embed_calls, fu_dnn_embed, fu_att_input,
                   fu_layer_log, fu_dnn_output, fu_y_pred,
                   embVars, predVars, attVars, mhVars>>

\* dnn_output = self.dnn(dnn_embed): the Sequential applies its layers in order
AutoIntMLP_call_dnn ==
    /\ fu_pc = "dnn"
    /\ fu_dnn_output' = <<[fu_dnn_embed[1] EXCEPT !.dnn = [k \in 1..Len(dnn) |-> k]]>>
    /\ fu_pc' = "output"
    /\ UNCHANGED <<fu_cfg, dnn, int_layers, fu_embed_calls, fu_dnn_embed, fu_att_input,
                   fu_layer_log, fu_att_output, fu_y_pred,
                   embVars, predVars, attVars, mhVars>>

\* y_pred = tf.sigmoid(att_output + dnn_output); return y_pred
AutoIntMLP_call_output ==
    /\ fu_pc = "output"
    /\ fu_y_pred' = <<[att_term |-> fu_att_output[1], dnn_term |-> fu_dnn_output[1]]>>
    /\ fu_pc' = "done"
    /\ UNCHANGED <<fu_cfg, dnn, int_layers, fu_embed_calls, fu_dnn_embed, fu_att_input,
                   fu_layer_log, fu_att_output, fu_dnn_output,
                   embVars, predVars, attVars, mhVars>>

(***************************************************************************)
(* Claims on FeaturesEmbedding (checked under SpecEmbed)                   *)
(***************************************************************************)
\* the sum of the cardinalities of the fields before field f
RECURSIVE SumBefore(_, _)
SumBefore(dims, f) == IF f <= 1 THEN 0 ELSE dims[f - 1] + SumBefore(dims, f - 1)

\* the table slice of field f: offset_f .. offset_f + cardinality_f - 1
Slice(dims, f) == SumBefore(dims, f)..(SumBefore(dims, f) + dims[f] - 1)

CodesInRange == \A f \in 1..Len(emb_x) : emb_x[f] >= 0 /\ emb_x[f] < field_dims[f]

\* C1: for positive cardinalities and every raw code within its field's
\* cardinality, the index looked up is the code plus the sum of the preceding
\* cardinalities; it lies in its field's slice, inside [0, sum of all
\* cardinalities), and the slices of two different fields are disjoint.
C1_IndexMapping ==
    (emb_pc = "called" /\ CodesInRange) =>
        \A f \in 1..Len(field_dims) :
            /\ emb_idx[f] = emb_x[f] + SumBefore(field_dims, f)
            /\ emb_idx[f] \in Slice(field_dims, f)
            /\ emb_idx[f] >= 0
            /\ emb_idx[f] < SumBefore(field_dims, Len(field_dims) + 1)
            /\ total_dim = SumBefore(field_dims, Len(field_dims) + 1)
            /\ \A g \in 1..Len(field_dims) :
                  g # f => Slice(field_dims, f) \cap Slice(field_dims, g) = {}

C1_Witness ==
    /\ emb_pc = "called"
    /\ CodesInRange
    /\ Len(field_dims) >= 2
    /\ emb_x[2] = field_dims[2] - 1
    /\ emb_idx[2] > emb_x[2]

ScenarioCalled ==
    emb_pc = "called" /\ field_dims = <<5, 3, 10>> /\ emb_x = <<2, 1, 7>>

\* C2 as stated: cardinalities [5, 3, 10] and the row [2, 1, 7] are looked up
\* at the global indices [2, 6, 8].
C2_ScenarioAsStated == ScenarioCalled => emb_idx = <<2, 6, 8>>

\* C2, amended: cardinalities [5, 3, 10] give the offsets [0, 5, 8] and the row
\* [2, 1, 7] is looked up at the global indices [2, 6, 15].
C2_Scenario == ScenarioCalled => (offsets = <<0, 5, 8>> /\ emb_idx = <<2, 6, 15>>)

C2_Witness == ScenarioCalled /\ emb_idx[3] = 15

(***************************************************************************)
(* Claims on predict_model (checked under SpecPredict)                     *)
(***************************************************************************)
Score(k) == Predict(model, pred_df[k])

\* C3 as stated: every returned pair is (the first column of a row, the score
\* predicted for that row).
C3_UserIdentifierAsStated ==
    pr_pc = "done" =>
        \A j \in 1..Len(pr_result) : \E k \in 1..Len(pred_df) :
            pr_result[j] = <<pred_df[k][1], Score(k)>>

\* C3, amended: every returned pair is (the second column of a row, the item
\* identifier, and the score predicted for that same row).
C3_ItemIdentifier ==
    pr_pc = "done" =>
        \A j \in 1..Len(pr_result) : \E k \in 1..Len(pred_df) :
            pr_result[j] = <<pred_df[k][2], Score(k)>>

C3_Witness ==
    /\ pr_pc = "done"
    /\ Len(pr_result) = top
    /\ pr_result[1][1] = pred_df[2][2]
    /\ pr_result[1][1] # pred_df[2][1]

RowsScoring(v) == Cardinality({k \in 1..Len(pred_df) : Score(k) = v})

ReturnedScoring(v) == Cardinality({j \in 1..Len(pr_result) : pr_result[j][2] = v})

\* C4: a table of n rows yields min(10, n) pairs in non-increasing order of
\* score, and no row left out scores strictly more than a returned pair.
C4_TopK ==
    pr_pc = "done" =>
        /\ Len(pr_result) = Min(10, Len(pred_df))
        /\ \A j \in 1..(Len(pr_result) - 1) : pr_result[j][2] >= pr_result[j + 1][2]
        /\ \A v \in 0..MaxScore :
              LET returned == ReturnedScoring(v)
                  left_out == returned < RowsScoring(v)
              IN  /\ returned <= Min(10, RowsScoring(v))
                  /\ left_out => \A j \in 1..Len(pr_result) : v <= pr_result[j][2]

C4_Witness ==
    /\ pr_pc = "done"
    /\ Len(pred_df) > top
    /\ Len(pr_result) = top
    /\ pr_result[1][2] > pr_result[top][2]
    /\ ReturnedScoring(pr_result[top][2]) < RowsScoring(pr_result[top][2])

\* C8: the chunks start at 0, 2048, 4096, ... in that order, are consecutive
\* and disjoint, hold at most 2048 rows with only the last one shorter, cover
\* every row once, and the accumulated list holds one entry per row in row order.
C8_Chunking ==
    /\ \A j \in 1..Len(predict_calls) :
          /\ predict_calls[j][1] = (j - 1) * 2048
          /\ predict_calls[j][2] >= 1
          /\ predict_calls[j][2] <= 2048
          /\ predict_calls[j][1] + predict_calls[j][2] <= Len(pred_df)
          /\ j < Len(predict_calls) =>
                /\ predict_calls[j][2] = 2048
                /\ predict_calls[j + 1][1] = predict_calls[j][1] + predict_calls[j][2]
    /\ Len(user_pred_info) = Min(pr_i, Len(pred_df))
    /\ \A k \in 1..Len(user_pred_info) : user_pred_info[k] = <<pred_df[k][2], Score(k)>>
    /\ pr_pc = "done" =>
          /\ Len(user_pred_info) = Len(pred_df)
          /\ Len(predict_calls) = (Len(pred_df) + 2047) \div 2048
          /\ Len(pred_df) > 0 =>
                LET last == predict_calls[Len(predict_calls)]
                IN  last[1] + last[2] = Len(pred_df)

C8_Witness ==
    /\ pr_pc = "done"
    /\ Len(pred_df) = 2 * 2048
    /\ Len(predict_calls) = 2
    /\ predict_calls[2] = <<2048, 2048>>

(***************************************************************************)
(* Claims on AutoIntLayer (checked under SpecAtt)                          *)
(***************************************************************************)
Shape(T) == <<Len(T), Len(T[1]), Len(T[1][1])>>

\* every row and field of T has the lengths Shape(T) gives
Rectangular(T) ==
    \A b \in 1..Len(T) :
        /\ Len(T[b]) = Len(T[1])
        /\ \A f \in 1..Len(T[b]) : Len(T[b][f]) = Len(T[1][1])

\* C5 as stated: for every head count >= 1, dividing the embedding size or not,
\* call completes and returns a tensor of the input's shape.
C5_AnyHeadCountAsStated ==
    al_pc = "called" =>
        (al_status = "ok" /\ Rectangular(al_out) /\ Shape(al_out) = Shape(al_x))

\* C5, amended: for every head count >= 1 that divides the embedding size, call
\* completes and returns a tensor of the input's shape (batch, fields,
\* embedding size); for a head count that does not divide it, call fails in
\* tf.split and returns nothing.
C5_ShapePreserved ==
    al_pc = "called" =>
        IF Len(al_x[1][1]) % att_head_num = 0
        THEN al_status = "ok" /\ Rectangular(al_out) /\ Shape(al_out) = Shape(al_x)
        ELSE al_status = "split_error" /\ al_out = <<>>

C5_Witness ==
    /\ al_pc = "called"
    /\ al_status = "ok"
    /\ att_head_num = 2
    /\ Shape(al_x) = <<2, 2, 4>>
    /\ Shape(al_out) = <<2, 2, 4>>

\* C7: with the same kernels and the same input x, the output with att_res set
\* is, element by element, the output without att_res plus x.
C7_ResidualDecomposition ==
    (al_pc = "called" /\ al_status = "ok" /\ att_res) =>
        LET plain == AutoIntLayer_output(al_W, att_head_num, FALSE, al_x)
        IN  /\ Shape(al_out) = Shape(plain)
            /\ \A b \in 1..Len(al_x) : \A f \in 1..Len(al_x[b]) :
                  \A e \in 1..Len(al_x[b][f]) :
                     /\ al_out[b][f][e].scores = plain[b][f][e].scores
                     /\ al_out[b][f][e].vals = plain[b][f][e].vals
                     /\ al_out[b][f][e].add = plain[b][f][e].add + al_x[b][f][e]

C7_Witness ==
    /\ al_pc = "called"
    /\ al_status = "ok"
    /\ att_res
    /\ att_head_num = 2
    /\ Shape(al_x) = <<2, 2, 4>>
    /\ al_x[2][1][3] # 0
    /\ al_out[2][1][3].add = al_x[2][1][3]
    /\ \E g \in 1..2 : al_out[2][1][3].vals[g] # 0

(***************************************************************************)
(* Claims on MultiHeadSelfAttention (checked under SpecMHSA)               *)
(***************************************************************************)
\* what the three operations leave behind
C6_Outcome ==
    /\ (mh_op = "init" /\ mh_head_arg <= 0) =>
          (mh_err = "head_num" /\ mh_pc = "failed" /\ mh_attrs = <<>>
             /\ mh_weights = <<>> /\ ~mh_built)
    /\ (mh_op = "init" /\ mh_head_arg >= 1) =>
          (mh_err = "none" /\ mh_pc = "constructed" /\ Len(mh_attrs) = 1)
    /\ (mh_op \in {"build", "call"} /\ Len(mh_shape_arg) # 3) => mh_err = "ndim"
    /\ (mh_op \in {"build", "call"} /\ Len(mh_shape_arg) = 3) => mh_err # "ndim"
    /\ (mh_op = "build" /\ Len(mh_shape_arg) = 3) => mh_err = "none"
    /\ mh_pc = "failed" => mh_attrs = <<>>

\* a build or call on an input of another rank creates no weight and no result
C6_Step ==
    (mh_op' \in {"build", "call"} /\ Len(mh_shape_arg') # 3) =>
        /\ mh_weights' = mh_weights
        /\ mh_built' = mh_built
        /\ mh_result' = mh_result

\* C6: head_num <= 0 makes the constructor fail before any attribute is set; an
\* input whose rank is not 3 makes build and call fail before any weight is
\* created or any result produced; with head_num >= 1 and a rank-3 input
\* neither check fails.
C6_Validation == [][C6_Step]_vars /\ []C6_Outcome

C6_Witness ==
    /\ mh_op = "call"
    /\ Len(mh_shape_arg) = 4
    /\ mh_err = "ndim"
    /\ mh_built
    /\ Len(mh_weights) = 4
    /\ mh_result # <<>>

(***************************************************************************)
(* Claims on AutoIntMLP (checked under SpecFusion)                         *)
(***************************************************************************)
SigmoidUnit == DenseLayer(1, "sigmoid")

\* C9 as stated: in every configuration the last layer of the DNN branch is the
\* single-unit sigmoid layer, and the DNN term of the final sum is that layer's
\* output with no further layer applied.
C9_SigmoidLastAsStated ==
    /\ fu_pc # "new" => dnn[Len(dnn)] = SigmoidUnit
    /\ fu_pc = "done" =>
          LET applied == fu_y_pred[1].dnn_term.dnn
          IN  dnn[applied[Len(applied)]] = SigmoidUnit

\* C9, amended: in every configuration the DNN branch is the hidden Dense
\* layers, then the single-unit sigmoid layer, then a BatchNormalization layer
\* if dnn_use_bn, then a Dropout(dnn_dropout) layer, which is always its last
\* layer; the DNN term of the final sum is the output of that Dropout layer,
\* every layer of the branch having been applied in order.
C9_DnnEnding ==
    fu_pc # "new" =>
        LET cfg == fu_cfg[1]
            n   == Len(cfg.dnn_hidden_units)
        IN  /\ Len(dnn) = n + 2 + (IF cfg.dnn_use_bn THEN 1 ELSE 0)
            /\ \A k \in 1..n :
                  dnn[k].kind = "Dense" /\ dnn[k].units = cfg.dnn_hidden_units[k]
            /\ dnn[n + 1] = SigmoidUnit
            /\ cfg.dnn_use_bn => dnn[n + 2].kind = "BatchNormalization"
            /\ dnn[Len(dnn)].kind = "Dropout"
            /\ dnn[Len(dnn)].rate = cfg.dnn_dropout
            /\ \A k \in (n + 2)..Len(dnn) : dnn[k].kind # "Dense"
            /\ fu_pc = "done" =>
                  /\ fu_y_pred[1].dnn_term.dnn = [k \in 1..Len(dnn) |-> k]
                  /\ fu_y_pred[1].dnn_term = fu_dnn_output[1]

C9_Witness ==
    /\ fu_pc = "done"
    /\ fu_cfg[1].dnn_use_bn
    /\ fu_cfg[1].dnn_dropout = 4
    /\ fu_cfg[1].dnn_hidden_units = <<32, 32>>
    /\ Len(dnn) = 5
    /\ fu_y_pred[1].dnn_term.dnn = <<1, 2, 3, 4, 5>>

\* C10: in one forward pass the embedding is computed once; the attention
\* branch applies the att_layer_num AutoIntLayer instances in construction
\* order, each given the previous one's output and the first the unflattened
\* embedding (with no layer the embedding itself is flattened and projected);
\* the DNN branch is given the flattened embedding and never an attention
\* layer's output.
C10_AttentionStack ==
    /\ fu_embed_calls <= 1
    /\ fu_pc \notin {"new", "constructed"} => fu_embed_calls = 1
    /\ fu_pc # "new" => Len(int_layers) = fu_cfg[1].att_layer_num
    /\ Len(fu_layer_log) <= Len(int_layers)
    /\ \A j \in 1..Len(fu_layer_log) :
          /\ fu_layer_log[j].layer = j
          /\ fu_layer_log[j].input =
                [att |-> [k \in 1..(j - 1) |-> k], ops |-> <<>>, dnn |-> <<>>]
    /\ fu_pc \in {"dnn", "output", "done"} =>
          /\ Len(fu_layer_log) = fu_cfg[1].att_layer_num
          /\ fu_att_output[1] =
                [att |-> [k \in 1..Len(int_layers) |-> k],
                 ops |-> <<"Flatten", "final_layer">>, dnn |-> <<>>]
    /\ fu_pc \in {"output", "done"} =>
          /\ fu_dnn_output[1].att = <<>>
          /\ fu_dnn_output[1].ops = <<"reshape">>
    /\ fu_pc = "done" =>
          fu_y_pred[1] = [att_term |-> fu_att_output[1], dnn_term |-> fu_dnn_output[1]]

C10_Witness ==
    /\ fu_pc = "done"
    /\ fu_cfg[1].att_layer_num = 3
    /\ Len(fu_layer_log) = 3
    /\ fu_y_pred[1].att_term.att = <<1, 2, 3>>
    /\ fu_y_pred[1].dnn_term.att = <<>>

(***************************************************************************)
(* Specifications                                                          *)
(***************************************************************************)
InitEmbed == EmbIdle /\ PredIdle /\ AttIdle /\ MhIdle /\ FuIdle

NextEmbed == FeaturesEmbedding_init \/ FeaturesEmbedding_call

SpecEmbed == InitEmbed /\ [][NextEmbed]_vars

InitPredict ==
    /\ EmbIdle
    /\ AttIdle
    /\ MhIdle
    /\ FuIdle
    /\ \E n \in TableSizes : pred_df = Table(n)
    /\ model \in Models
    /\ pr_pc = "loop"
    /\ pr_i = 0
    /\ user_pred_info = <<>>
    /\ predict_calls = <<>>
    /\ pr_result = <<>>

NextPredict == PredictChunk \/ PredictReturn

SpecPredict == InitPredict /\ [][NextPredict]_vars

InitAtt == EmbIdle /\ PredIdle /\ AttIdle /\ MhIdle /\ FuIdle

NextAtt == AutoIntLayer_init \/ AutoIntLayer_call

SpecAtt == InitAtt /\ [][NextAtt]_vars

InitMHSA == EmbIdle /\ PredIdle /\ AttIdle /\ MhIdle /\ FuIdle

NextMHSA ==
    \/ MultiHeadSelfAttention_init
    \/ MultiHeadSelfAttention_build
    \/ MultiHeadSelfAttention_call

SpecMHSA == InitMHSA /\ [][NextMHSA]_vars

InitFusion == EmbIdle /\ PredIdle /\ AttIdle /\ MhIdle /\ FuIdle

NextFusion ==
    \/ AutoIntMLP_init
    \/ AutoIntMLP_call_embed
    \/ AutoIntMLP_call_layer
    \/ AutoIntMLP_call_final
    \/ AutoIntMLP_call_dnn
    \/ AutoIntMLP_call_output

SpecFusion == InitFusion /\ [][NextFusion]_vars

====
